---------------------------- MODULE Spec2Model ----------------------------
(***************************************************************************)
(* Model of sbdd.c: a bio-based block device that clones every inbound bio *)
(* and resubmits it to a backing block device, with a reference counter    *)
(* (refs_cnt) and a wait queue (exitwait) that let sbdd_delete drain the   *)
(* in-flight clones before it releases the disk and the backing handle.    *)
(*                                                                         *)
(* Threads: one "main" thread running sbdd_init (sbdd_create, and          *)
(* sbdd_delete on failure) and later sbdd_exit (sbdd_delete); one thread   *)
(* per request running sbdd_submit_bio; one completion context per         *)
(* submitted clone running sbdd_bio_endio.  Every atomic_t operation and   *)
(* every call into the block layer is one step.                            *)
(***************************************************************************)
EXTENDS Integers, FiniteSets, Sequences, TLC

\* Number of requests (calls of sbdd_submit_bio) the host makes.
NumReqs == 2

Reqs == 1..NumReqs

\* Capacities (in sectors) the backing device may report.
Capacities == {2048, 4096}

\* blk_status_t values a bio can end with.
BLK_STS_OK == "BLK_STS_OK"
BLK_STS_IOERR == "BLK_STS_IOERR"
Status == {BLK_STS_OK, BLK_STS_IOERR, "BLK_STS_NOSPC"}

VARIABLES
    pcMain,          \* position of the module init/exit thread
    caller,          \* who called sbdd_delete: "init" or "exit"
    ret,             \* ret of sbdd_create / sbdd_init
    deleting,        \* __sbdd.deleting
    refs_cnt,        \* __sbdd.refs_cnt
    capacity,        \* __sbdd.capacity
    gd,              \* __sbdd.gd: "NULL" or "valid"
    bd_handle,       \* __sbdd.bd_handle: "NULL", "ERR" or "valid"
    backing_capacity,\* capacity of the backing device
    gd_capacity,     \* capacity set on the gendisk
    live,            \* the disk is registered (add_disk done, del_gendisk not)
    onQueue,         \* the deleting task is queued on exitwait
    taskState,       \* state of the deleting task
    n_del_gendisk,   \* number of del_gendisk calls
    n_put_disk,      \* number of put_disk calls
    n_bdev_release,  \* number of bdev_release calls
    bdev_release_arg,\* argument of the last bdev_release call
    refsAtRelease,   \* values of refs_cnt seen at each release call
    pc,              \* per request: position in sbdd_submit_bio
    clone,           \* per request: state of bio_clone
    cloneStatus,     \* per request: bio_clone->bi_status at completion
    epc,             \* per request: position in sbdd_bio_endio
    origDone,        \* per request: number of completions of the original bio
    origStatus,      \* per request: bi_status the original bio ended with
    completedBy,     \* per request: set of who completed the original bio
    nSubmitted,      \* per request: number of submit_bio(bio_clone) calls
    startDel,        \* per request: deleting when sbdd_submit_bio was entered
    sawDel,          \* per request: line 71 read deleting as non-zero
    admitted         \* per request: the increment of line 76 succeeded

mainVars == <<pcMain, caller, ret, deleting, refs_cnt, capacity, gd, bd_handle,
              backing_capacity, gd_capacity, live, onQueue, taskState,
              n_del_gendisk, n_put_disk, n_bdev_release, bdev_release_arg,
              refsAtRelease>>
reqVars == <<pc, clone, cloneStatus, epc, origDone, origStatus, completedBy,
             nSubmitted, startDel, sawDel, admitted>>
vars == <<mainVars, reqVars>>

-----------------------------------------------------------------------------
(* atomic_t primitives, as pure functions of the old value *)

\* mutant of atomic_inc_not_zero: a plain atomic_inc
atomic_inc_always(v) == <<v + 1, TRUE>>

\* atomic_inc_not_zero: <<new value, returned truth value>>
atomic_inc_not_zero(v) == IF v # 0 THEN <<v + 1, TRUE>> ELSE <<v, FALSE>>

\* atomic_dec_if_positive: new value
atomic_dec_if_positive(v) == IF v - 1 >= 0 THEN v - 1 ELSE v

\* mutant of atomic_dec_and_test: the counter is tested but not decremented
atomic_read_and_test(v) == <<v, v = 0>>

\* atomic_dec_and_test: <<new value, new value is zero>>
atomic_dec_and_test(v) == <<v - 1, v - 1 = 0>>

\* mutant of WaitCond: sbdd_delete does not wait for the drain
WaitCond_NoDrain == TRUE

\* the condition of wait_event in sbdd_delete
WaitCond == refs_cnt = 0

-----------------------------------------------------------------------------
Init ==
    /\ pcMain = "sbdd_init"
    /\ caller = "none"
    /\ ret = 0
    /\ deleting = 0
    /\ refs_cnt = 0
    /\ capacity = 0
    /\ gd = "NULL"
    /\ bd_handle = "NULL"
    /\ backing_capacity \in Capacities
    /\ gd_capacity = 0
    /\ live = FALSE
    /\ onQueue = FALSE
    /\ taskState = "running"
    /\ n_del_gendisk = 0
    /\ n_put_disk = 0
    /\ n_bdev_release = 0
    /\ bdev_release_arg = "none"
    /\ refsAtRelease = {}
    /\ pc = [r \in Reqs |-> "idle"]
    /\ clone = [r \in Reqs |-> "none"]
    /\ cloneStatus = [r \in Reqs |-> BLK_STS_OK]
    /\ epc = [r \in Reqs |-> "none"]
    /\ origDone = [r \in Reqs |-> 0]
    /\ origStatus = [r \in Reqs |-> "none"]
    /\ completedBy = [r \in Reqs |-> {}]
    /\ nSubmitted = [r \in Reqs |-> 0]
    /\ startDel = [r \in Reqs |-> -1]
    /\ sawDel = [r \in Reqs |-> FALSE]
    /\ admitted = [r \in Reqs |-> FALSE]

-----------------------------------------------------------------------------
(* sbdd_init, sbdd_create, sbdd_exit *)

\* sbdd_create lines 99-105: bdev_open_by_path; on failure the error pointer
\* stays in bd_handle and sbdd_create returns -1.
create_open ==
    /\ pcMain = "sbdd_init"
    /\ \E ok \in BOOLEAN :
         IF ok
         THEN /\ bd_handle' = "valid"
              /\ pcMain' = "create_capacity"
              /\ ret' = ret
         ELSE /\ bd_handle' = "ERR"
              /\ ret' = -1
              /\ pcMain' = "init_ret"
    /\ UNCHANGED <<caller, deleting, refs_cnt, capacity, gd, backing_capacity,
                   gd_capacity, live, onQueue, taskState, n_del_gendisk,
                   n_put_disk, n_bdev_release, bdev_release_arg, refsAtRelease>>
    /\ UNCHANGED reqVars

\* mutant of create_capacity: the capacity is not read from the backing disk
create_capacity_unset ==
    /\ pcMain = "create_capacity"
    /\ onQueue' = FALSE
    /\ pcMain' = "create_alloc_disk"
    /\ UNCHANGED <<caller, ret, deleting, refs_cnt, capacity, gd, bd_handle,
                   backing_capacity, gd_capacity, live, taskState,
                   n_del_gendisk, n_put_disk, n_bdev_release, bdev_release_arg,
                   refsAtRelease>>
    /\ UNCHANGED reqVars

\* lines 107-110: get_capacity of the backing disk, init_waitqueue_head
create_capacity ==
    /\ pcMain = "create_capacity"
    /\ capacity' = backing_capacity
    /\ onQueue' = FALSE
    /\ pcMain' = "create_alloc_disk"
    /\ UNCHANGED <<caller, ret, deleting, refs_cnt, gd, bd_handle,
                   backing_capacity, gd_capacity, live, taskState,
                   n_del_gendisk, n_put_disk, n_bdev_release, bdev_release_arg,
                   refsAtRelease>>
    /\ UNCHANGED reqVars

\* lines 112-119: blk_alloc_disk; on IS_ERR gd is reset to NULL and the
\* error code returned.
create_alloc_disk ==
    /\ pcMain = "create_alloc_disk"
    /\ \E ok \in BOOLEAN :
         IF ok
         THEN /\ gd' = "valid"
              /\ pcMain' = "create_configure"
              /\ ret' = ret
         ELSE /\ gd' = "NULL"
              /\ ret' = -12
              /\ pcMain' = "init_ret"
    /\ UNCHANGED <<caller, deleting, refs_cnt, capacity, bd_handle,
                   backing_capacity, gd_capacity, live, onQueue, taskState,
                   n_del_gendisk, n_put_disk, n_bdev_release, bdev_release_arg,
                   refsAtRelease>>
    /\ UNCHANGED reqVars

\* the value sbdd_create stores in refs_cnt (line 130)
InitialRefs == 1

\* mutant of create_configure: the counter is not set before add_disk
create_configure_no_refs ==
    /\ pcMain = "create_configure"
    /\ gd_capacity' = capacity
    /\ pcMain' = "create_add_disk"
    /\ UNCHANGED <<caller, ret, deleting, refs_cnt, capacity, gd, bd_handle,
                   backing_capacity, live, onQueue, taskState, n_del_gendisk,
                   n_put_disk, n_bdev_release, bdev_release_arg, refsAtRelease>>
    /\ UNCHANGED reqVars

\* lines 121-130: queue and gendisk configuration, set_capacity,
\* atomic_set(&refs_cnt, 1)
create_configure ==
    /\ pcMain = "create_configure"
    /\ gd_capacity' = capacity
    /\ refs_cnt' = InitialRefs
    /\ pcMain' = "create_add_disk"
    /\ UNCHANGED <<caller, ret, deleting, capacity, gd, bd_handle,
                   backing_capacity, live, onQueue, taskState, n_del_gendisk,
                   n_put_disk, n_bdev_release, bdev_release_arg, refsAtRelease>>
    /\ UNCHANGED reqVars

\* lines 137-142: add_disk; its result is the result of sbdd_create
create_add_disk ==
    /\ pcMain = "create_add_disk"
    /\ \E ok \in BOOLEAN :
         IF ok
         THEN /\ live' = TRUE
              /\ ret' = 0
         ELSE /\ live' = FALSE
              /\ ret' = -16
    /\ pcMain' = "init_ret"
    /\ UNCHANGED <<caller, deleting, refs_cnt, capacity, gd, bd_handle,
                   backing_capacity, gd_capacity, onQueue, taskState,
                   n_del_gendisk, n_put_disk, n_bdev_release, bdev_release_arg,
                   refsAtRelease>>
    /\ UNCHANGED reqVars

\* mutant of sbdd_init: a failed sbdd_create is returned without cleanup
sbdd_init_no_cleanup ==
    /\ pcMain = "init_ret"
    /\ IF ret # 0
       THEN /\ pcMain' = "init_failed"
            /\ caller' = "init"
       ELSE /\ pcMain' = "loaded"
            /\ caller' = caller
    /\ UNCHANGED <<ret, deleting, refs_cnt, capacity, gd, bd_handle,
                   backing_capacity, gd_capacity, live, onQueue, taskState,
                   n_del_gendisk, n_put_disk, n_bdev_release, bdev_release_arg,
                   refsAtRelease>>
    /\ UNCHANGED reqVars

\* sbdd_init lines 174-183: on failure run sbdd_delete, else the module is
\* loaded.
sbdd_init ==
    /\ pcMain = "init_ret"
    /\ IF ret # 0
       THEN /\ pcMain' = "delete_set"
            /\ caller' = "init"
       ELSE /\ pcMain' = "loaded"
            /\ caller' = caller
    /\ UNCHANGED <<ret, deleting, refs_cnt, capacity, gd, bd_handle,
                   backing_capacity, gd_capacity, live, onQueue, taskState,
                   n_del_gendisk, n_put_disk, n_bdev_release, bdev_release_arg,
                   refsAtRelease>>
    /\ UNCHANGED reqVars

\* sbdd_exit lines 191-194: module unload calls sbdd_delete
sbdd_exit ==
    /\ pcMain = "loaded"
    /\ pcMain' = "delete_set"
    /\ caller' = "exit"
    /\ UNCHANGED <<ret, deleting, refs_cnt, capacity, gd, bd_handle,
                   backing_capacity, gd_capacity, live, onQueue, taskState,
                   n_del_gendisk, n_put_disk, n_bdev_release, bdev_release_arg,
                   refsAtRelease>>
    /\ UNCHANGED reqVars

-----------------------------------------------------------------------------
(* sbdd_delete *)

\* line 147: atomic_set(&deleting, 1)
delete_set ==
    /\ pcMain = "delete_set"
    /\ deleting' = 1
    /\ pcMain' = "delete_dec"
    /\ UNCHANGED <<caller, ret, refs_cnt, capacity, gd, bd_handle,
                   backing_capacity, gd_capacity, live, onQueue, taskState,
                   n_del_gendisk, n_put_disk, n_bdev_release, bdev_release_arg,
                   refsAtRelease>>
    /\ UNCHANGED reqVars

\* line 148: atomic_dec_if_positive(&refs_cnt)
delete_dec ==
    /\ pcMain = "delete_dec"
    /\ refs_cnt' = atomic_dec_if_positive(refs_cnt)
    /\ pcMain' = "wait_check"
    /\ UNCHANGED <<caller, ret, deleting, capacity, gd, bd_handle,
                   backing_capacity, gd_capacity, live, onQueue, taskState,
                   n_del_gendisk, n_put_disk, n_bdev_release, bdev_release_arg,
                   refsAtRelease>>
    /\ UNCHANGED reqVars

\* line 149, wait_event: the condition is tested first; if it holds the
\* wait is over without touching the queue.
wait_check ==
    /\ pcMain = "wait_check"
    /\ pcMain' = IF WaitCond THEN "delete_gd" ELSE "wait_prepare"
    /\ UNCHANGED <<caller, ret, deleting, refs_cnt, capacity, gd, bd_handle,
                   backing_capacity, gd_capacity, live, onQueue, taskState,
                   n_del_gendisk, n_put_disk, n_bdev_release, bdev_release_arg,
                   refsAtRelease>>
    /\ UNCHANGED reqVars

\* line 149, wait_event loop: prepare_to_wait_event queues the task on
\* exitwait and marks it TASK_UNINTERRUPTIBLE.
wait_prepare ==
    /\ pcMain = "wait_prepare"
    /\ onQueue' = TRUE
    /\ taskState' = "uninterruptible"
    /\ pcMain' = "wait_recheck"
    /\ UNCHANGED <<caller, ret, deleting, refs_cnt, capacity, gd, bd_handle,
                   backing_capacity, gd_capacity, live, n_del_gendisk,
                   n_put_disk, n_bdev_release, bdev_release_arg, refsAtRelease>>
    /\ UNCHANGED reqVars

\* line 149, wait_event loop: the condition is tested again after queueing;
\* if it holds, finish_wait dequeues the task and marks it running.
wait_recheck ==
    /\ pcMain = "wait_recheck"
    /\ IF WaitCond
       THEN /\ onQueue' = FALSE
            /\ taskState' = "running"
            /\ pcMain' = "delete_gd"
       ELSE /\ pcMain' = "wait_schedule"
            /\ UNCHANGED <<onQueue, taskState>>
    /\ UNCHANGED <<caller, ret, deleting, refs_cnt, capacity, gd, bd_handle,
                   backing_capacity, gd_capacity, live, n_del_gendisk,
                   n_put_disk, n_bdev_release, bdev_release_arg, refsAtRelease>>
    /\ UNCHANGED reqVars

\* line 149, wait_event loop: schedule() returns only once a wake_up has
\* made the task running again; the loop then starts over.
wait_schedule ==
    /\ pcMain = "wait_schedule"
    /\ taskState = "running"
    /\ pcMain' = "wait_prepare"
    /\ UNCHANGED <<caller, ret, deleting, refs_cnt, capacity, gd, bd_handle,
                   backing_capacity, gd_capacity, live, onQueue, taskState,
                   n_del_gendisk, n_put_disk, n_bdev_release, bdev_release_arg,
                   refsAtRelease>>
    /\ UNCHANGED reqVars

\* mutant of HasDisk: the test of line 152 inverted
HasDisk_Inverted == gd = "NULL"

\* the test of line 152: is there a disk to remove
HasDisk == gd # "NULL"

\* lines 152-154: if (gd) del_gendisk(gd)
delete_gd ==
    /\ pcMain = "delete_gd"
    /\ IF HasDisk
       THEN /\ n_del_gendisk' = n_del_gendisk + 1
            /\ live' = FALSE
            /\ refsAtRelease' = refsAtRelease \cup {refs_cnt}
            /\ pcMain' = "delete_put_disk"
       ELSE /\ pcMain' = "delete_bdev"
            /\ UNCHANGED <<n_del_gendisk, live, refsAtRelease>>
    /\ UNCHANGED <<caller, ret, deleting, refs_cnt, capacity, gd, bd_handle,
                   backing_capacity, gd_capacity, onQueue, taskState,
                   n_put_disk, n_bdev_release, bdev_release_arg>>
    /\ UNCHANGED reqVars

\* line 155: put_disk(gd)
delete_put_disk ==
    /\ pcMain = "delete_put_disk"
    /\ n_put_disk' = n_put_disk + 1
    /\ refsAtRelease' = refsAtRelease \cup {refs_cnt}
    /\ pcMain' = "delete_bdev"
    /\ UNCHANGED <<caller, ret, deleting, refs_cnt, capacity, gd, bd_handle,
                   backing_capacity, gd_capacity, live, onQueue, taskState,
                   n_del_gendisk, n_bdev_release, bdev_release_arg>>
    /\ UNCHANGED reqVars

\* the test of line 158: is there a backing handle to release
HasHandle == bd_handle # "NULL"

\* lines 158-161: if (bd_handle) bdev_release(bd_handle).  Releasing an
\* error pointer dereferences an invalid address: the call either oopses
\* the thread or returns.
delete_bdev ==
    /\ pcMain = "delete_bdev"
    /\ IF HasHandle
       THEN /\ n_bdev_release' = n_bdev_release + 1
            /\ bdev_release_arg' = bd_handle
            /\ refsAtRelease' = refsAtRelease \cup {refs_cnt}
            /\ IF bd_handle = "ERR"
               THEN pcMain' \in {"oops", "delete_ret"}
               ELSE pcMain' = "delete_ret"
       ELSE /\ pcMain' = "delete_ret"
            /\ UNCHANGED <<n_bdev_release, bdev_release_arg, refsAtRelease>>
    /\ UNCHANGED <<caller, ret, deleting, refs_cnt, capacity, gd, bd_handle,
                   backing_capacity, gd_capacity, live, onQueue, taskState,
                   n_del_gendisk, n_put_disk>>
    /\ UNCHANGED reqVars

\* line 162 and the callers' tails: sbdd_init returns ret (line 183),
\* sbdd_exit returns (line 195).
delete_ret ==
    /\ pcMain = "delete_ret"
    /\ pcMain' = IF caller = "init" THEN "init_failed" ELSE "unloaded"
    /\ UNCHANGED <<caller, ret, deleting, refs_cnt, capacity, gd, bd_handle,
                   backing_capacity, gd_capacity, live, onQueue, taskState,
                   n_del_gendisk, n_put_disk, n_bdev_release, bdev_release_arg,
                   refsAtRelease>>
    /\ UNCHANGED reqVars

-----------------------------------------------------------------------------
(* completion of an original bio *)

\* the original bio of request r ends with status st; who records the caller
EndOrig(r, st, who) ==
    /\ origDone' = [origDone EXCEPT ![r] = @ + 1]
    /\ origStatus' = [origStatus EXCEPT ![r] = st]
    /\ completedBy' = [completedBy EXCEPT ![r] = @ \cup {who}]

\* bio_io_error(bio): sets bi_status to BLK_STS_IOERR and ends the bio
bio_io_error(r, who) == EndOrig(r, BLK_STS_IOERR, who)

\* bio_endio(bio): ends the bio with the status it carries; the original's
\* bi_status is never written by the driver, so it is still BLK_STS_OK
bio_endio(r, who) == EndOrig(r, BLK_STS_OK, who)

-----------------------------------------------------------------------------
(* sbdd_submit_bio, one thread per request *)

\* the host calls .submit_bio (line 92) of a registered disk
submit_enter(r) ==
    /\ pc[r] = "idle"
    /\ live
    /\ pc' = [pc EXCEPT ![r] = "split"]
    /\ startDel' = [startDel EXCEPT ![r] = deleting]
    /\ UNCHANGED mainVars
    /\ UNCHANGED <<clone, cloneStatus, epc, origDone, origStatus, completedBy,
                   nSubmitted, sawDel, admitted>>

\* lines 61-63: bio_split_to_limits.  It returns NULL only after it has
\* ended the bio itself with an error; the driver then just returns.
submit_split(r) ==
    /\ pc[r] = "split"
    /\ \E null \in BOOLEAN :
         IF null
         THEN /\ EndOrig(r, BLK_STS_IOERR, "bio_split_to_limits")
              /\ pc' = [pc EXCEPT ![r] = "returned"]
         ELSE /\ pc' = [pc EXCEPT ![r] = "alloc"]
              /\ UNCHANGED <<origDone, origStatus, completedBy>>
    /\ UNCHANGED mainVars
    /\ UNCHANGED <<clone, cloneStatus, epc, nSubmitted, startDel, sawDel,
                   admitted>>

\* mutant of submit_alloc: the allocation-failure path drops a reference it
\* never took
submit_alloc_put(r) ==
    /\ pc[r] = "alloc"
    /\ \E ok \in BOOLEAN :
         IF ok
         THEN /\ clone' = [clone EXCEPT ![r] = "allocated"]
              /\ pc' = [pc EXCEPT ![r] = "check_deleting"]
              /\ UNCHANGED <<origDone, origStatus, completedBy, refs_cnt>>
         ELSE /\ bio_io_error(r, "sbdd_submit_bio")
              /\ pc' = [pc EXCEPT ![r] = "returned"]
              /\ clone' = clone
              /\ refs_cnt' = refs_cnt - 1
    /\ UNCHANGED <<pcMain, caller, ret, deleting, capacity, gd, bd_handle,
                   backing_capacity, gd_capacity, live, onQueue, taskState,
                   n_del_gendisk, n_put_disk, n_bdev_release, bdev_release_arg,
                   refsAtRelease>>
    /\ UNCHANGED <<cloneStatus, epc, nSubmitted, startDel, sawDel, admitted>>

\* lines 65-69: bio_alloc_clone; on failure bio_io_error(bio) and return
submit_alloc(r) ==
    /\ pc[r] = "alloc"
    /\ \E ok \in BOOLEAN :
         IF ok
         THEN /\ clone' = [clone EXCEPT ![r] = "allocated"]
              /\ pc' = [pc EXCEPT ![r] = "check_deleting"]
              /\ UNCHANGED <<origDone, origStatus, completedBy>>
         ELSE /\ bio_io_error(r, "sbdd_submit_bio")
              /\ pc' = [pc EXCEPT ![r] = "returned"]
              /\ clone' = clone
    /\ UNCHANGED mainVars
    /\ UNCHANGED <<cloneStatus, epc, nSubmitted, startDel, sawDel, admitted>>

\* mutant of DeletingObserved: the deleting flag is not consulted
DeletingObserved_Never == FALSE

\* the test of line 71: atomic_read(&deleting)
DeletingObserved == deleting # 0

\* lines 71-74: if deleting is set, bio_io_error(bio) and return
submit_check_deleting(r) ==
    /\ pc[r] = "check_deleting"
    /\ IF DeletingObserved
       THEN /\ bio_io_error(r, "sbdd_submit_bio")
            /\ sawDel' = [sawDel EXCEPT ![r] = TRUE]
            /\ pc' = [pc EXCEPT ![r] = "returned"]
       ELSE /\ pc' = [pc EXCEPT ![r] = "inc_not_zero"]
            /\ UNCHANGED <<origDone, origStatus, completedBy, sawDel>>
    /\ UNCHANGED mainVars
    /\ UNCHANGED <<clone, cloneStatus, epc, nSubmitted, startDel, admitted>>

\* lines 76-79: atomic_inc_not_zero(&refs_cnt); on failure bio_io_error(bio)
\* and return
submit_inc_not_zero(r) ==
    /\ pc[r] = "inc_not_zero"
    /\ refs_cnt' = atomic_inc_not_zero(refs_cnt)[1]
    /\ IF atomic_inc_not_zero(refs_cnt)[2]
       THEN /\ admitted' = [admitted EXCEPT ![r] = TRUE]
            /\ pc' = [pc EXCEPT ![r] = "submit"]
            /\ UNCHANGED <<origDone, origStatus, completedBy>>
       ELSE /\ bio_io_error(r, "sbdd_submit_bio")
            /\ pc' = [pc EXCEPT ![r] = "returned"]
            /\ UNCHANGED admitted
    /\ UNCHANGED <<pcMain, caller, ret, deleting, capacity, gd, bd_handle,
                   backing_capacity, gd_capacity, live, onQueue, taskState,
                   n_del_gendisk, n_put_disk, n_bdev_release, bdev_release_arg,
                   refsAtRelease>>
    /\ UNCHANGED <<clone, cloneStatus, epc, nSubmitted, startDel, sawDel>>

\* mutant of submit_clone: the forwarder also ends the original itself after
\* submitting the clone
submit_clone_and_end(r) ==
    /\ pc[r] = "submit"
    /\ clone' = [clone EXCEPT ![r] = "submitted"]
    /\ nSubmitted' = [nSubmitted EXCEPT ![r] = @ + 1]
    /\ bio_io_error(r, "sbdd_submit_bio")
    /\ pc' = [pc EXCEPT ![r] = "returned"]
    /\ UNCHANGED mainVars
    /\ UNCHANGED <<cloneStatus, epc, startDel, sawDel, admitted>>

\* lines 81-84: bind bi_private and bi_end_io, submit_bio(bio_clone), return
submit_clone(r) ==
    /\ pc[r] = "submit"
    /\ clone' = [clone EXCEPT ![r] = "submitted"]
    /\ nSubmitted' = [nSubmitted EXCEPT ![r] = @ + 1]
    /\ pc' = [pc EXCEPT ![r] = "returned"]
    /\ UNCHANGED mainVars
    /\ UNCHANGED <<cloneStatus, epc, origDone, origStatus, completedBy,
                   startDel, sawDel, admitted>>

-----------------------------------------------------------------------------
(* sbdd_bio_endio, one completion per submitted clone *)

\* the backing device finishes a submitted clone with some status and calls
\* bi_end_io (line 82) once
backing_complete(r) ==
    /\ clone[r] = "submitted"
    /\ epc[r] = "none"
    /\ \E st \in Status : cloneStatus' = [cloneStatus EXCEPT ![r] = st]
    /\ epc' = [epc EXCEPT ![r] = "endio_status"]
    /\ UNCHANGED mainVars
    /\ UNCHANGED <<pc, clone, origDone, origStatus, completedBy, nSubmitted,
                   startDel, sawDel, admitted>>

\* lines 43-46: a clone with a non-zero bi_status ends the original with
\* bio_io_error, any other with bio_endio
endio_status(r) ==
    /\ epc[r] = "endio_status"
    /\ IF cloneStatus[r] # BLK_STS_OK
       THEN bio_io_error(r, "sbdd_bio_endio")
       ELSE bio_endio(r, "sbdd_bio_endio")
    /\ epc' = [epc EXCEPT ![r] = "endio_put"]
    /\ UNCHANGED mainVars
    /\ UNCHANGED <<pc, clone, cloneStatus, nSubmitted, startDel, sawDel,
                   admitted>>

\* mutant of endio_put: the clone is not released
endio_put_skipped(r) ==
    /\ epc[r] = "endio_put"
    /\ epc' = [epc EXCEPT ![r] = "endio_dec"]
    /\ UNCHANGED mainVars
    /\ UNCHANGED <<pc, clone, cloneStatus, origDone, origStatus, completedBy,
                   nSubmitted, startDel, sawDel, admitted>>

\* line 48: bio_put(bio_clone)
endio_put(r) ==
    /\ epc[r] = "endio_put"
    /\ clone' = [clone EXCEPT ![r] = "released"]
    /\ epc' = [epc EXCEPT ![r] = "endio_dec"]
    /\ UNCHANGED mainVars
    /\ UNCHANGED <<pc, cloneStatus, origDone, origStatus, completedBy,
                   nSubmitted, startDel, sawDel, admitted>>

\* mutant of endio_dec: the decrement is skipped once deleting is set
endio_dec_unless_deleting(r) ==
    /\ epc[r] = "endio_dec"
    /\ refs_cnt' = IF deleting # 0 THEN refs_cnt
                                   ELSE atomic_dec_and_test(refs_cnt)[1]
    /\ epc' = [epc EXCEPT ![r] =
                 IF refs_cnt' = 0 THEN "endio_wake" ELSE "endio_done"]
    /\ UNCHANGED <<pcMain, caller, ret, deleting, capacity, gd, bd_handle,
                   backing_capacity, gd_capacity, live, onQueue, taskState,
                   n_del_gendisk, n_put_disk, n_bdev_release, bdev_release_arg,
                   refsAtRelease>>
    /\ UNCHANGED <<pc, clone, cloneStatus, origDone, origStatus, completedBy,
                   nSubmitted, startDel, sawDel, admitted>>

\* line 50: atomic_dec_and_test(&refs_cnt)
endio_dec(r) ==
    /\ epc[r] = "endio_dec"
    /\ refs_cnt' = atomic_dec_and_test(refs_cnt)[1]
    /\ epc' = [epc EXCEPT ![r] =
                 IF atomic_dec_and_test(refs_cnt)[2] THEN "endio_wake"
                                                     ELSE "endio_done"]
    /\ UNCHANGED <<pcMain, caller, ret, deleting, capacity, gd, bd_handle,
                   backing_capacity, gd_capacity, live, onQueue, taskState,
                   n_del_gendisk, n_put_disk, n_bdev_release, bdev_release_arg,
                   refsAtRelease>>
    /\ UNCHANGED <<pc, clone, cloneStatus, origDone, origStatus, completedBy,
                   nSubmitted, startDel, sawDel, admitted>>

\* mutant of wake_up: the wake-up is lost
wake_up_lost == UNCHANGED <<taskState, onQueue>>

\* wake_up(&exitwait): a task queued on exitwait is made running and taken
\* off the queue (autoremove_wake_function)
wake_up ==
    IF onQueue
    THEN /\ taskState' = "running"
         /\ onQueue' = FALSE
    ELSE UNCHANGED <<taskState, onQueue>>

\* line 51: wake_up(&exitwait) after the decrement that reached zero
endio_wake(r) ==
    /\ epc[r] = "endio_wake"
    /\ wake_up
    /\ epc' = [epc EXCEPT ![r] = "endio_done"]
    /\ UNCHANGED <<pcMain, caller, ret, deleting, refs_cnt, capacity, gd,
                   bd_handle, backing_capacity, gd_capacity, live,
                   n_del_gendisk, n_put_disk, n_bdev_release, bdev_release_arg,
                   refsAtRelease>>
    /\ UNCHANGED <<pc, clone, cloneStatus, origDone, origStatus, completedBy,
                   nSubmitted, startDel, sawDel, admitted>>

-----------------------------------------------------------------------------
MainStep ==
    \/ create_open
    \/ create_capacity
    \/ create_alloc_disk
    \/ create_configure
    \/ create_add_disk
    \/ sbdd_init
    \/ sbdd_exit
    \/ delete_set
    \/ delete_dec
    \/ wait_check
    \/ wait_prepare
    \/ wait_recheck
    \/ wait_schedule
    \/ delete_gd
    \/ delete_put_disk
    \/ delete_bdev
    \/ delete_ret

SubmitStep(r) ==
    \/ submit_enter(r)
    \/ submit_split(r)
    \/ submit_alloc(r)
    \/ submit_check_deleting(r)
    \/ submit_inc_not_zero(r)
    \/ submit_clone(r)

EndioStep(r) ==
    \/ backing_complete(r)
    \/ endio_status(r)
    \/ endio_put(r)
    \/ endio_dec(r)
    \/ endio_wake(r)

Next ==
    \/ MainStep
    \/ \E r \in Reqs : SubmitStep(r)
    \/ \E r \in Reqs : EndioStep(r)

Spec == Init /\ [][Next]_vars

\* Scheduling: a thread inside sbdd_delete or sbdd_submit_bio keeps running
\* until it blocks or returns; the backing device completes every submitted
\* clone and the completion handler runs to its end.  Module unload and the
\* arrival of requests are up to the environment.
DeleteStep ==
    \/ delete_set
    \/ delete_dec
    \/ wait_check
    \/ wait_prepare
    \/ wait_recheck
    \/ wait_schedule
    \/ delete_gd
    \/ delete_put_disk
    \/ delete_bdev
    \/ delete_ret

SubmitProgress(r) ==
    \/ submit_split(r)
    \/ submit_alloc(r)
    \/ submit_check_deleting(r)
    \/ submit_inc_not_zero(r)
    \/ submit_clone(r)

Fairness ==
    /\ WF_vars(DeleteStep)
    /\ \A r \in Reqs : WF_vars(SubmitProgress(r))
    /\ \A r \in Reqs : WF_vars(EndioStep(r))

FairSpec == Init /\ [][Next]_vars /\ Fairness

-----------------------------------------------------------------------------
(* vocabulary of the properties *)

\* request r was admitted: its atomic_inc_not_zero succeeded
Admitted(r) == admitted[r]

\* the completion handler of r's clone has run its decrement
Decremented(r) == epc[r] \in {"endio_wake", "endio_done"}

\* r holds a reference: admitted, decrement not yet run
Outstanding(r) == Admitted(r) /\ ~Decremented(r)

\* sbdd_create succeeded: the module is loaded or being unloaded
Created == pcMain = "loaded" \/ caller = "exit"

\* sbdd_delete is past its wait_event
PastWait ==
    pcMain \in {"delete_gd", "delete_put_disk", "delete_bdev", "delete_ret",
                "unloaded", "init_failed", "oops"}

\* some release step of sbdd_delete has run
Released == n_del_gendisk + n_put_disk + n_bdev_release > 0

-----------------------------------------------------------------------------
(* Properties *)

\* C1: sbdd_delete runs none of its release steps (del_gendisk, put_disk,
\* bdev_release) while refs_cnt is non-zero or while an admitted clone has
\* not yet run the decrement of its completion handler.
C1_NoReleaseWhileReferenced ==
    /\ refsAtRelease \subseteq {0}
    /\ Released => /\ refs_cnt = 0
                   /\ \A r \in Reqs : ~Outstanding(r)

\* C1 witness: after a successful create, the backing handle has been
\* released and a clone had been admitted and has completed.
C1_Witness ==
    /\ caller = "exit"
    /\ n_bdev_release = 1
    /\ \E r \in Reqs : Admitted(r) /\ Decremented(r)

\* C2: once sbdd_delete has set deleting, no sbdd_submit_bio call increments
\* refs_cnt (and so none submits a clone): no increment happens while
\* deleting is set.
C2_NoAdmissionAfterDeleting ==
    [][\A r \in Reqs : (admitted'[r] /\ ~admitted[r]) => deleting = 0]_vars

\* C3: refs_cnt is never negative, sbdd_submit_bio increments it only from a
\* value >= 1, and once the counter of a created device has reached zero it
\* stays zero.
C3_CounterDiscipline ==
    /\ [](refs_cnt >= 0)
    /\ [][refs_cnt' > refs_cnt /\ pcMain # "create_configure"
            => refs_cnt >= 1]_vars
    /\ [][refs_cnt = 0 /\ pcMain # "create_configure"
            => refs_cnt' = 0]_vars

\* C3 witness: a request passed the deleting test, found refs_cnt at zero at
\* line 76 and was refused the increment.
C3_Witness ==
    \E r \in Reqs :
        /\ pc[r] = "returned"
        /\ clone[r] = "allocated"
        /\ ~sawDel[r]
        /\ ~Admitted(r)
        /\ refs_cnt = 0

\* the original bio of r was ended by sbdd_submit_bio itself
RejectedByForwarder(r) == "sbdd_submit_bio" \in completedBy[r]

\* at most one completion, a returned call that submitted nothing has ended
\* the bio with an I/O error, a submitted clone is the only one to end it
ExactlyOnce(r) ==
    /\ origDone[r] <= 1
    /\ nSubmitted[r] <= 1
    /\ (pc[r] = "returned" /\ nSubmitted[r] = 0) =>
          /\ origDone[r] = 1
          /\ origStatus[r] = BLK_STS_IOERR
          /\ completedBy[r] \subseteq {"sbdd_submit_bio", "bio_split_to_limits"}
    /\ RejectedByForwarder(r) =>
          /\ nSubmitted[r] = 0
          /\ clone[r] # "submitted"
          /\ epc[r] = "none"
          /\ pc[r] = "returned"
    /\ nSubmitted[r] = 1 =>
          /\ pc[r] = "returned"
          /\ epc[r] \in {"none", "endio_status"} => origDone[r] = 0
          /\ epc[r] \notin {"none", "endio_status"} =>
                /\ origDone[r] = 1
                /\ completedBy[r] = {"sbdd_bio_endio"}

\* C4: every request handed to sbdd_submit_bio is completed exactly once: a
\* rejected one once, with an I/O error, by the forwarder, and never
\* forwarded; an admitted one once, by its clone's completion handler only;
\* and every request that entered sbdd_submit_bio is eventually completed.
C4_ExactlyOneCompletion ==
    /\ [](\A r \in Reqs : ExactlyOnce(r))
    /\ \A r \in Reqs : (pc[r] # "idle") ~> (origDone[r] = 1)

\* C4 witness: one request was rejected by the forwarder and another was
\* forwarded and completed by its clone's handler.
C4_Witness ==
    \E r, q \in Reqs :
        /\ RejectedByForwarder(r) /\ origDone[r] = 1
        /\ nSubmitted[q] = 1 /\ origDone[q] = 1 /\ epc[q] = "endio_done"

\* C5: sbdd_delete does not get past its wait while an admitted request has
\* not completed and decremented, and, every submitted clone being completed
\* by the backing device, a sbdd_delete called by sbdd_exit eventually
\* returns.
C5_DeleteWaitsAndTerminates ==
    /\ [](PastWait => \A r \in Reqs :
              Admitted(r) => origDone[r] = 1 /\ Decremented(r))
    /\ (pcMain = "delete_set" /\ caller = "exit") ~> (pcMain = "unloaded")

\* C5 witness: sbdd_delete went to sleep on exitwait with requests in
\* flight and the wake_up of the final decrement has made it running again.
C5_Witness ==
    /\ caller = "exit"
    /\ pcMain = "wait_schedule"
    /\ taskState = "running"
    /\ refs_cnt = 0
    /\ \E r \in Reqs : Admitted(r) /\ epc[r] = "endio_done"

\* C6: a call whose test of line 71 reads deleting as set ends the original
\* with an I/O error, leaves refs_cnt alone and submits no clone; a call
\* that enters sbdd_submit_bio after deleting was set is never admitted.
C6_RejectedWhenDeleting ==
    \A r \in Reqs :
        /\ sawDel[r] => /\ origDone[r] = 1
                        /\ origStatus[r] = BLK_STS_IOERR
                        /\ completedBy[r] = {"sbdd_submit_bio"}
                        /\ ~Admitted(r)
                        /\ nSubmitted[r] = 0
                        /\ epc[r] = "none"
        /\ startDel[r] = 1 => /\ ~Admitted(r)
                              /\ nSubmitted[r] = 0
                              /\ pc[r] \notin {"inc_not_zero", "submit"}

\* C6 witness: a call entered after deleting was set, while another clone
\* still held a reference, and was rejected at line 71.
C6_Witness ==
    \E r \in Reqs :
        /\ startDel[r] = 1
        /\ sawDel[r]
        /\ refs_cnt > 0
        /\ pcMain = "wait_schedule"

\* C7: the original request ends with the very status the backing device
\* reported for the clone.
C7_StatusPassedThrough ==
    \A r \in Reqs :
        (nSubmitted[r] = 1 /\ origDone[r] = 1) => origStatus[r] = cloneStatus[r]

\* the number of references held by clones
NumOutstanding == Cardinality({r \in Reqs : Outstanding(r)})

\* the baseline reference, until line 148 has removed it
Baseline == IF pcMain \in {"loaded", "delete_set", "delete_dec"} THEN 1 ELSE 0

\* C8: after a successful create refs_cnt is the baseline reference (1 until
\* sbdd_delete has removed it, then 0) plus the number of admitted clones
\* whose handler has not yet decremented; it is zero only if deletion has
\* been initiated and no clone is outstanding.
C8_CounterIsBaselinePlusOutstanding ==
    Created =>
        /\ refs_cnt = Baseline + NumOutstanding
        /\ refs_cnt = 0 => deleting = 1 /\ NumOutstanding = 0

\* C8 witness: a request was admitted and has decremented, and the counter
\* is back at its value before the submission, with the baseline in place.
C8_Witness ==
    /\ pcMain = "loaded"
    /\ refs_cnt = 1
    /\ \E r \in Reqs : Admitted(r) /\ Decremented(r)

\* C9: each release step of sbdd_delete runs only on a resource that was
\* acquired: bdev_release only on an opened handle, del_gendisk and put_disk
\* only on an allocated disk; after a failed open nothing is released.
C9_ReleaseOnlyAcquired ==
    /\ n_bdev_release > 0 => bdev_release_arg = "valid"
    /\ n_del_gendisk + n_put_disk > 0 => gd = "valid"
    /\ bd_handle = "ERR" => ~Released

\* C10: after a successful create, deletion releases the disk and the
\* backing handle exactly once each, in the order drain, del_gendisk,
\* put_disk, bdev_release, skipping none.
C10_ReleasedOnceInOrder ==
    Created =>
        /\ n_del_gendisk <= 1 /\ n_put_disk <= 1 /\ n_bdev_release <= 1
        /\ n_bdev_release = 1 => n_put_disk = 1 /\ bdev_release_arg = "valid"
        /\ n_put_disk = 1 => n_del_gendisk = 1
        /\ n_del_gendisk = 1 => refs_cnt = 0 /\ NumOutstanding = 0
        /\ ~PastWait => ~Released
        /\ pcMain \in {"delete_ret", "unloaded"} =>
              n_del_gendisk = 1 /\ n_put_disk = 1 /\ n_bdev_release = 1

\* C10 witness: sbdd_exit has returned, the handle was released, and a clone
\* had held a reference.
C10_Witness ==
    /\ pcMain = "unloaded"
    /\ n_bdev_release = 1
    /\ \E r \in Reqs : Admitted(r) /\ Decremented(r)

C12_RejectionIsLocal ==
    /\ [][\A r \in Reqs :
            (RejectedByForwarder(r)' /\ ~RejectedByForwarder(r)) =>
                /\ refs_cnt' = refs_cnt
                /\ deleting' = deleting
                /\ nSubmitted' = nSubmitted
                /\ clone'[r] # "submitted"
                /\ epc' = epc]_vars
    /\ [](\A r \in Reqs : RejectedByForwarder(r) =>
              ~Admitted(r) /\ nSubmitted[r] = 0)
    /\ []((live /\ deleting = 0) => atomic_inc_not_zero(refs_cnt)[2])

\* C12 witness: one request failed at clone allocation while the device is
\* healthy and a later one is at its increment.
C12_Witness ==
    \E r, q \in Reqs :
        /\ RejectedByForwarder(r)
        /\ clone[r] = "none"
        /\ deleting = 0
        /\ pc[q] = "inc_not_zero"

\* C13: add_disk makes the device reachable only once it is fully
\* initialised (handle open, capacity set, deleting clear, refs_cnt 1), so
\* that no sbdd_submit_bio call sees refs_cnt at zero before deletion has
\* begun; and del_gendisk runs only after the drain.
C13_RegisterAfterInitDeregisterAfterDrain ==
    /\ [][(~live /\ live') =>
            /\ bd_handle = "valid"
            /\ capacity = backing_capacity
            /\ gd_capacity = backing_capacity
            /\ deleting = 0
            /\ refs_cnt = 1]_vars
    /\ [](\A r \in Reqs :
            (pc[r] \notin {"idle", "returned"} /\ deleting = 0)
                => refs_cnt >= 1)
    /\ [][n_del_gendisk' > n_del_gendisk =>
            /\ pcMain = "delete_gd"
            /\ refs_cnt = 0
            /\ NumOutstanding = 0]_vars

\* C13 witness: a request is at its increment right after add_disk, before
\* sbdd_init has even returned.
C13_Witness ==
    /\ pcMain = "init_ret"
    /\ live
    /\ \E r \in Reqs : pc[r] = "inc_not_zero"

\* C14: no step of sbdd_bio_endio changes deleting, capacity, the disk or
\* the backing handle, and whatever deleting is, the handler ends the
\* original with the clone's outcome, releases the clone and lowers
\* refs_cnt by exactly one.
C14_EndioIgnoresDeleting ==
    [][\A r \in Reqs : epc'[r] # epc[r] =>
          /\ deleting' = deleting
          /\ capacity' = capacity
          /\ gd_capacity' = gd_capacity
          /\ bd_handle' = bd_handle
          /\ gd' = gd
          /\ epc[r] = "endio_status" =>
                /\ epc'[r] = "endio_put"
                /\ origDone'[r] = origDone[r] + 1
                /\ (origStatus'[r] = BLK_STS_OK) <=> (cloneStatus[r] = BLK_STS_OK)
                /\ refs_cnt' = refs_cnt
          /\ epc[r] = "endio_put" =>
                /\ epc'[r] = "endio_dec"
                /\ clone'[r] = "released"
                /\ refs_cnt' = refs_cnt
          /\ epc[r] = "endio_dec" =>
                /\ epc'[r] \in {"endio_wake", "endio_done"}
                /\ refs_cnt' = refs_cnt - 1]_vars

\* C14 witness: a handler that ran after deleting was set has ended the
\* original, released the clone and made the decrement that reached zero.
C14_Witness ==
    \E r \in Reqs :
        /\ deleting = 1
        /\ epc[r] = "endio_wake"
        /\ origDone[r] = 1
        /\ clone[r] = "released"
        /\ refs_cnt = 0

\* C15: after a successful create the capacity of the device, and the one
\* set on its disk, is the capacity the backing device had at creation, and
\* no later step changes it.
C15_CapacityFixed ==
    /\ [](Created => /\ capacity = backing_capacity
                     /\ gd_capacity = backing_capacity)
    /\ [][Created => /\ capacity' = capacity
                     /\ gd_capacity' = gd_capacity]_vars

\* C15 witness: a device created over a backing device of 2048 sectors has
\* forwarded a request, was deleted, and still has capacity 2048.
C15_Witness ==
    /\ pcMain = "unloaded"
    /\ backing_capacity = 2048
    /\ capacity = 2048
    /\ gd_capacity = 2048
    /\ \E r \in Reqs : Admitted(r) /\ Decremented(r)

\* C16: sbdd_delete run by sbdd_init after a failed create never blocks in
\* its wait and runs to its end: refs_cnt is 0 or is decremented from 1 to 0
\* and never negative, and until sbdd_init has returned the thread always
\* has a next step.
C16_FailedCreateTeardownCompletes ==
    caller = "init" =>
        /\ refs_cnt >= 0
        /\ pcMain \notin {"wait_prepare", "wait_recheck", "wait_schedule"}
        /\ pcMain = "init_failed" \/ ENABLED DeleteStep

\* C17: a clone allocated by sbdd_submit_bio is submitted to the backing
\* device or released before the call returns; none stays allocated.
C17_NoCloneLeak ==
    \A r \in Reqs : pc[r] = "returned" => clone[r] # "allocated"

\* C18: sbdd_bio_endio ends the original and releases the clone before it
\* decrements refs_cnt, so once sbdd_delete is past its wait every request
\* ever admitted has its original completed and its clone released.
C18_DrainedMeansCompleted ==
    /\ [][\A r \in Reqs : (epc[r] = "endio_dec" /\ epc'[r] # "endio_dec") =>
            /\ origDone[r] = 1
            /\ clone[r] = "released"]_vars
    /\ [](PastWait => \A r \in Reqs :
            Admitted(r) => /\ nSubmitted[r] = 1
                           /\ origDone[r] = 1
                           /\ clone[r] = "released")

\* C18 witness: the disk and the handle have been released after two
\* admitted requests were completed and their clones released.
C18_Witness ==
    /\ caller = "exit"
    /\ n_bdev_release = 1
    /\ \A r \in Reqs : Admitted(r) /\ origDone[r] = 1 /\ clone[r] = "released"

\* sbdd_bio_endio is running for r's clone
InHandler(r) ==
    epc[r] \in {"endio_status", "endio_put", "endio_dec", "endio_wake"}

\* C19: once sbdd_delete is past its wait no sbdd_bio_endio is still
\* running: each has finished every step, the wake_up after its decrement
\* included.
C19_NoHandlerRunningPastWait ==
    PastWait => \A r \in Reqs : ~InHandler(r)

=============================================================================
